---- MODULE Spec2Model ----
(***************************************************************************)
(* A model of the relativistic particle-mesh engine of gevolution          *)
(* (include/gevolution/gr_pm.hpp), of its spectral utility                 *)
(* (include/gevolution/power.hpp) and of the driver that uses them.        *)
(*                                                                         *)
(* Real numbers are exact rationals <<n, d>> (d > 0, lowest terms).  The   *)
(* content of a lattice field is a term: "zero" (every cell exactly 0),    *)
(* "const" (every cell the same non-zero value), "dc" (a mode-space field  *)
(* whose only non-zero mode is k = 0), "alloc" (storage as allocated,      *)
(* never written), or the operation that produced it applied to the        *)
(* contents it read.  Two fields with the same term hold the same values.  *)
(***************************************************************************)
EXTENDS Integers, Sequences, FiniteSets, TLC

VARIABLES
    \* ---- relativistic_pm (gr_pm.hpp) ----
    fld,      \* field name -> content of the interior cells
    stale,    \* field name -> TRUE when an interior write is newer than the last halo refresh
    ver,      \* field name -> index of the engine call that last wrote the field (0: constructor)
    pcls,     \* the particle ensemble: sequence of particles
    ops,      \* the engine calls made so far, in order
    log,      \* the lattice events of those calls, in program order
    \* ---- power_spectrum (power.hpp) ----
    pkN,      \* N_global
    pkComps,  \* F.components()
    pkProcs,  \* number of processes of the communicator
    pkOwner,  \* stored mode -> process holding it in its local grid
    pkNorm,   \* stored mode -> norm(value)
    pkPc,     \* process -> position in power_spectrum
    pkPw,     \* process -> pw, a sequence of <<count, sum>>
    pkSent,   \* process -> the pw it contributed to all_reduce
    pkAvg,    \* process -> the returned sequence (<<>> before return)
    \* ---- compute_forces on a concrete lattice (gr_pm.hpp) ----
    kPhi,     \* site -> phi(x), sites taken modulo the lattice size
    kPart,    \* the particle: [cell, ref_dist], and acc once written
    kI,       \* the loop variable i of compute_forces
    kFx,      \* site -> Fx(x) (<<>> before the first gradient loop)
    kPc,      \* position in compute_forces
    \* ---- the main loop of the driver (main.cpp), one process ----
    mSim,     \* the settings: sim, cosmo and the background on the time grid
    mPc,      \* position in the loop
    mCycle,   \* cycle
    mT,       \* index of a on the time grid
    mDtau,    \* <<dtau_old, dtau>>
    mCount,   \* <<snapcount, pkcount>>
    mLog,     \* the stages run so far in the current cycle, with what they read
    \* ---- the end of the main loop on several processes (main.cpp) ----
    sProcs,   \* number of processes
    sPc,      \* process -> position in the loop
    sCycle,   \* process -> cycle
    sFile     \* TRUE while the file 'stop' exists

engVars == <<fld, stale, ver, pcls, ops, log>>
pkVars == <<pkN, pkComps, pkProcs, pkOwner, pkNorm, pkPc, pkPw, pkSent, pkAvg>>
vars == <<fld, stale, ver, pcls, ops, log,
          pkN, pkComps, pkProcs, pkOwner, pkNorm, pkPc, pkPw, pkSent, pkAvg,
          kPhi, kPart, kI, kFx, kPc,
          mSim, mPc, mCycle, mT, mDtau, mCount, mLog,
          sProcs, sPc, sCycle, sFile>>
krVars == <<kPhi, kPart, kI, kFx, kPc>>
mnVars == <<mSim, mPc, mCycle, mT, mDtau, mCount, mLog>>
stVars == <<sProcs, sPc, sCycle, sFile>>

(***************************************************************************)
(* Bounds of the model.                                                    *)
(***************************************************************************)
MaxOps == 3          \* engine calls per behaviour
MaxParticles == 1    \* particles in the ensemble
Nside == 4           \* N, the argument of relativistic_pm(int N)
MaxN == 4            \* largest N_global given to power_spectrum
MaxProcs == 2        \* largest number of processes of the communicator
MaxCount == 2        \* largest count of a bin given to the averaging loop
MaxSum == 2          \* largest sum of a bin given to the averaging loop
KSide == 5           \* lattice size of the concrete compute_forces
MaxCycles == 3       \* cycles of the main loop per behaviour
MaxOut == 2          \* largest num_snapshot and num_pk

(***************************************************************************)
(* Exact rational arithmetic.                                              *)
(***************************************************************************)
Abs(x) == IF x < 0 THEN -x ELSE x

RECURSIVE GCD(_, _)
GCD(a, b) == IF b = 0 THEN a ELSE GCD(b, a % b)

RNorm(n, d) ==
    IF n = 0 THEN <<0, 1>>
    ELSE LET g == GCD(Abs(n), Abs(d))
             s == IF d < 0 THEN -1 ELSE 1
         IN  <<(s * n) \div g, (s * d) \div g>>

RInt(n) == <<n, 1>>
RAdd(p, q) == RNorm(p[1] * q[2] + q[1] * p[2], p[2] * q[2])
RSub(p, q) == RNorm(p[1] * q[2] - q[1] * p[2], p[2] * q[2])
RMul(p, q) == RNorm(p[1] * q[1], p[2] * q[2])
RDiv(p, q) == RNorm(p[1] * q[2], p[2] * q[1])
RIsZero(p) == p[1] = 0

(***************************************************************************)
(* Field contents.                                                         *)
(***************************************************************************)
Term(op, args, par) == [op |-> op, args |-> args, par |-> par]
Zero == Term("zero", <<>>, <<>>)
Alloc == Term("alloc", <<>>, <<>>)
Const(q) == IF RIsZero(q) THEN Zero ELSE Term("const", <<>>, <<q>>)
Dc(q) == IF RIsZero(q) THEN Zero ELSE Term("dc", <<>>, <<q>>)
IsUniform(t) == t.op \in {"zero", "const"}
IsDcOnly(t) == t.op \in {"zero", "dc"}
ValueOf(t) == IF t.op = "zero" THEN <<0, 1>> ELSE t.par[1]

RealFields == {"phi", "chi", "Bi", "T00", "T0i", "Tij"}
ModeFields == {"phi_FT", "chi_FT", "Bi_FT", "T00_FT", "T0i_FT", "Tij_FT"}
Fields == RealFields \cup ModeFields

(***************************************************************************)
(* The transform plans bound by the constructor: plan -> <<position-space  *)
(* field, mode-space field>>.                                              *)
(***************************************************************************)
PlanOf(plan) ==
    CASE plan = "plan_phi" -> <<"phi", "phi_FT">>
      [] plan = "plan_chi" -> <<"chi", "chi_FT">>
      [] plan = "plan_Bi"  -> <<"Bi", "Bi_FT">>
      [] plan = "plan_T00" -> <<"T00", "T00_FT">>
      [] plan = "plan_T0i" -> <<"T0i", "T0i_FT">>
      [] plan = "plan_Tij" -> <<"Tij", "Tij_FT">>

(***************************************************************************)
(* Particles.  pos is the position in box units, cell the containing cell, *)
(* q the canonical momentum; acc[i] is the content of acceleration         *)
(* component i and by[i] the index of the engine call that wrote it.       *)
(***************************************************************************)
Dx == <<1, Nside>>

Particle(j) ==
    LET c == <<(j - 1) % Nside, 0, (j - 1) \div Nside>>
    IN  [cell |-> c,
         pos  |-> [l \in 1..3 |-> RMul(RAdd(RInt(c[l]), <<1, 2>>), Dx)],
         q    |-> <<RInt(j), <<0, 1>>, <<0, 1>>>>,
         acc  |-> <<Alloc, Alloc, Alloc>>,
         by   |-> <<0, 0, 0>>]

Ensemble(n) == [j \in 1..n |-> Particle(j)]

RECURSIVE PclsKey(_)
PclsKey(ps) ==
    IF ps = <<>> THEN <<>>
    ELSE LET p == Head(ps)
         IN  <<RInt(p.cell[1]), RInt(p.cell[2]), RInt(p.cell[3])>>
             \o p.pos \o p.q \o PclsKey(Tail(ps))

(***************************************************************************)
(* The lattice operations of gevolution.hpp and of the transform backend   *)
(* that gr_pm.hpp calls, on field contents.                                *)
(***************************************************************************)
\* forward transform: a uniform field has only its k = 0 mode
FFTForward(c) ==
    IF c.op = "zero" THEN Zero
    ELSE IF c.op = "const" THEN Dc(ValueOf(c))
    ELSE Term("fft_forward", <<c>>, <<>>)

\* backward transform: a field with only k = 0 is uniform
FFTBackward(c) ==
    IF c.op = "zero" THEN Zero
    ELSE IF c.op = "dc" THEN Const(ValueOf(c))
    ELSE Term("fft_backward", <<c>>, <<>>)

\* prepareFTsource(phi, chi, source, bgmodel, result, coeff, coeff2, coeff3):
\* result = coeff2 (source - bgmodel) + (coeff3 - coeff) phi - coeff3 chi
PrepareFTsource8(phi, chi, source, par) ==
    LET bg == par[1]  coeff == par[2]  coeff2 == par[3]  coeff3 == par[4]
    IN  IF IsUniform(phi) /\ IsUniform(chi) /\ IsUniform(source)
        THEN Const(RSub(RAdd(RMul(coeff2, RSub(ValueOf(source), bg)),
                             RMul(RSub(coeff3, coeff), ValueOf(phi))),
                        RMul(coeff3, ValueOf(chi))))
        ELSE Term("prepareFTsource", <<phi, chi, source>>, par)

\* prepareFTsource(phi, Tij, Sij, coeff): Sij = coeff Tij (+ terms in the
\* differences of phi)
PrepareFTsource4(phi, Tij, par) ==
    IF Tij.op = "zero" /\ IsUniform(phi) THEN Zero
    ELSE Term("prepareFTsource", <<phi, Tij>>, par)

\* (k^2 coeff + modif) pot = source; the mode k = 0 is  source / modif, and 0
\* when modif = 0
SolveModifiedPoissonFT(source, par) ==
    LET modif == par[2]
    IN  IF source.op = "zero" THEN Zero
        ELSE IF source.op = "dc"
        THEN (IF RIsZero(modif) THEN Zero ELSE Dc(RDiv(ValueOf(source), modif)))
        ELSE Term("solveModifiedPoissonFT", <<source>>, par)

\* chi_FT = -Pi(k) Tij_FT / k^2 for k # 0, and 0 at k = 0
ProjectFTscalar(source) ==
    IF IsDcOnly(source) THEN Zero ELSE Term("projectFTscalar", <<source>>, <<>>)

\* Bi_FT = f (delta_ij - k_i k_j / k^2) / k^2 T0i_FT for k # 0, and 0 at k = 0
ProjectFTvector(source, par) ==
    IF IsDcOnly(source) \/ RIsZero(par[1]) THEN Zero
    ELSE Term("projectFTvector", <<source>>, par)

\* projection_T00_project, projection_T0i_project, projection_Tij_project:
\* every particle adds to the 8 vertices of its cell, reading phi there
ProjectionProject(kind, cur, phi, par, ps) ==
    IF ps = <<>> THEN cur ELSE Term(kind, <<cur, phi>>, par \o PclsKey(ps))

\* projection_T00_comm, ...: the ghost cells are folded and refreshed
ProjectionComm(kind, cur) ==
    IF cur.op = "zero" THEN Zero ELSE Term(kind, <<cur>>, <<>>)

\* a functor applied cell by cell: F(x) *= f(x)
ApplyFunctor(cur, par) ==
    IF cur.op = "zero" THEN Zero ELSE Term("filter", <<cur>>, par)

(***************************************************************************)
(* compute_forces on contents: the centred difference of phi along axis i  *)
(* and its 8-corner interpolation at a particle.                           *)
(***************************************************************************)
Gradient(phi, i) ==
    IF IsUniform(phi) THEN Zero
    ELSE Term("gradient", <<phi>>, <<RInt(i), RDiv(RInt(1), Dx)>>)

RefDist(p) == [l \in 1..3 |-> RSub(RDiv(p.pos[l], Dx), RInt(p.cell[l]))]

Interpolate(Fx, p) ==
    IF Fx.op = "zero" THEN Zero
    ELSE Term("interpolate", <<Fx>>,
              <<RInt(p.cell[1]), RInt(p.cell[2]), RInt(p.cell[3])>> \o RefDist(p))

(***************************************************************************)
(* The bodies of the engine's member functions, statement by statement.    *)
(* A statement is [k: the function called, a: its field (or plan)          *)
(* arguments in call order, par: its numeric arguments].                   *)
(***************************************************************************)
Stmt(k, a, par) == [k |-> k, a |-> a, par |-> par]

\* sample(pcls, a)
SampleStmts(a) ==
    << Stmt("projection_init", <<"T00">>, <<>>),
       Stmt("projection_T00_project", <<"T00", "phi">>, <<a>>),
       Stmt("projection_T00_comm", <<"T00">>, <<>>),
       Stmt("projection_init", <<"T0i">>, <<>>),
       Stmt("projection_T0i_project", <<"T0i", "phi">>, <<>>),
       Stmt("projection_T0i_comm", <<"T0i">>, <<>>),
       Stmt("projection_init", <<"Tij">>, <<>>),
       Stmt("projection_Tij_project", <<"Tij", "phi">>, <<a>>),
       Stmt("projection_Tij_comm", <<"Tij">>, <<>>) >>

\* compute_phi(a, Hc, fourpiG, dt, Omega)
ComputePhiStmts(a, Hc, fourpiG, dt, Omega) ==
    LET dx2 == RMul(Dx, Dx)
    IN  << Stmt("prepareFTsource8", <<"phi", "chi", "T00", "T00">>,
                << Omega,
                   RDiv(RMul(RMul(RInt(3), Hc), dx2), dt),
                   RDiv(RMul(fourpiG, dx2), a),
                   RMul(RMul(RInt(3), RMul(Hc, Hc)), dx2) >>),
           Stmt("fft_forward", <<"plan_T00">>, <<>>),
           Stmt("updateHalo", <<"T00_FT">>, <<>>),
           Stmt("solveModifiedPoissonFT", <<"T00_FT", "phi_FT">>,
                << RDiv(RInt(1), dx2), RDiv(RMul(RInt(3), Hc), dt) >>),
           Stmt("fft_backward", <<"plan_phi">>, <<>>),
           Stmt("updateHalo", <<"phi">>, <<>>) >>

\* compute_chi(f)
ComputeChiStmts(f) ==
    << Stmt("prepareFTsource4", <<"phi", "Tij", "Tij">>, <<RMul(RInt(2), f)>>),
       Stmt("fft_forward", <<"plan_Tij">>, <<>>),
       Stmt("updateHalo", <<"Tij_FT">>, <<>>),
       Stmt("projectFTscalar", <<"Tij_FT", "chi_FT">>, <<>>),
       Stmt("fft_backward", <<"plan_chi">>, <<>>),
       Stmt("updateHalo", <<"chi">>, <<>>) >>

\* compute_Bi with the halo of Bi refreshed before the backward transform
ComputeBiStmts_HaloBeforeBackward(f) ==
    << Stmt("fft_forward", <<"plan_T0i">>, <<>>),
       Stmt("updateHalo", <<"T0i_FT">>, <<>>),
       Stmt("projectFTvector", <<"T0i_FT", "Bi_FT">>, <<f>>),
       Stmt("updateHalo", <<"Bi">>, <<>>),
       Stmt("fft_backward", <<"plan_Bi">>, <<>>) >>

\* compute_Bi projecting the tensor source Tij_FT instead of T0i_FT
ComputeBiStmts_ReadsTij(f) ==
    << Stmt("fft_forward", <<"plan_T0i">>, <<>>),
       Stmt("updateHalo", <<"T0i_FT">>, <<>>),
       Stmt("projectFTvector", <<"Tij_FT", "Bi_FT">>, <<f>>),
       Stmt("fft_backward", <<"plan_Bi">>, <<>>),
       Stmt("updateHalo", <<"Bi">>, <<>>) >>

\* compute_Bi(f)
ComputeBiStmts(f) ==
    << Stmt("fft_forward", <<"plan_T0i">>, <<>>),
       Stmt("updateHalo", <<"T0i_FT">>, <<>>),
       Stmt("projectFTvector", <<"T0i_FT", "Bi_FT">>, <<f>>),
       Stmt("fft_backward", <<"plan_Bi">>, <<>>),
       Stmt("updateHalo", <<"Bi">>, <<>>) >>

\* compute_potential passing Hc and Omega to compute_phi in each other's place
ComputePotentialStmts_SwappedArgs(a, Hc, fourpiG, dt, Omega) ==
    LET dx2 == RMul(Dx, Dx)
    IN  ComputePhiStmts(a, Omega, fourpiG, dt, Hc)
        \o ComputeChiStmts(RDiv(RMul(fourpiG, dx2), a))
        \o ComputeBiStmts(RMul(fourpiG, dx2))

\* compute_potential solving chi before phi
ComputePotentialStmts_ChiFirst(a, Hc, fourpiG, dt, Omega) ==
    LET dx2 == RMul(Dx, Dx)
    IN  ComputeChiStmts(RDiv(RMul(fourpiG, dx2), a))
        \o ComputePhiStmts(a, Hc, fourpiG, dt, Omega)
        \o ComputeBiStmts(RMul(fourpiG, dx2))

\* compute_potential(a, Hc, fourpiG, dt, Omega)
ComputePotentialStmts(a, Hc, fourpiG, dt, Omega) ==
    LET dx2 == RMul(Dx, Dx)
    IN  ComputePhiStmts(a, Hc, fourpiG, dt, Omega)
        \o ComputeChiStmts(RDiv(RMul(fourpiG, dx2), a))
        \o ComputeBiStmts(RMul(fourpiG, dx2))

\* apply_filter_kspace(f)
ApplyFilterKspaceStmts(f) ==
    << Stmt("filter", <<"phi_FT">>, <<f>>),
       Stmt("updateHalo", <<"phi_FT">>, <<>>) >>

\* apply_filter_rspace(f)
ApplyFilterRspaceStmts(f) ==
    << Stmt("filter", <<"phi">>, <<f>>),
       Stmt("updateHalo", <<"phi">>, <<>>) >>

\* compute_forces refreshing the halo of Fx only after the particle loop
ForcesAxisStmts_LateHalo(i) ==
    << Stmt("gradient", <<"Fx", "phi">>, <<RInt(i)>>),
       Stmt("interpolate", <<"Fx">>, <<RInt(i)>>),
       Stmt("updateHalo", <<"Fx">>, <<>>) >>

\* compute_forces(pcls): for each axis, the gradient into the local field Fx,
\* its halo refresh, and the loop over the particles
ForcesAxisStmts(i) ==
    << Stmt("gradient", <<"Fx", "phi">>, <<RInt(i)>>),
       Stmt("updateHalo", <<"Fx">>, <<>>),
       Stmt("interpolate", <<"Fx">>, <<RInt(i)>>) >>

\* compute_forces looping over two axes only
ComputeForcesStmts_TwoAxes ==
    ForcesAxisStmts(0) \o ForcesAxisStmts(1)

ComputeForcesStmts ==
    ForcesAxisStmts(0) \o ForcesAxisStmts(1) \o ForcesAxisStmts(2)

\* relativistic_pm(int N): the six position-space fields are zeroed
ConstructorStmts ==
    << Stmt("to_zero", <<"phi">>, <<>>), Stmt("updateHalo", <<"phi">>, <<>>),
       Stmt("to_zero", <<"chi">>, <<>>), Stmt("updateHalo", <<"chi">>, <<>>),
       Stmt("to_zero", <<"Bi">>, <<>>),  Stmt("updateHalo", <<"Bi">>, <<>>),
       Stmt("to_zero", <<"T00">>, <<>>), Stmt("updateHalo", <<"T00">>, <<>>),
       Stmt("to_zero", <<"T0i">>, <<>>), Stmt("updateHalo", <<"T0i">>, <<>>),
       Stmt("to_zero", <<"Tij">>, <<>>), Stmt("updateHalo", <<"Tij">>, <<>>) >>

(***************************************************************************)
(* Execution of one statement by engine call number n on the record        *)
(*   st = [fld, stale, ver, pcls, log, fx, fxStale],                       *)
(* fx being the local field Fx of compute_forces.  Every statement logs    *)
(* one event: f the field it writes or refreshes, rd the field it reads    *)
(* beside its cell-by-cell source ("" when none), fresh whether rd's halo  *)
(* was refreshed after rd's last interior write, rv the call that last     *)
(* wrote rd.                                                               *)
(***************************************************************************)
StaleOf(st, f) == IF f = "Fx" THEN st.fxStale ELSE st.stale[f]
VerOf(st, f) == IF f = "Fx" THEN 0 ELSE st.ver[f]

Event(st, n, k, f, rd) ==
    [op |-> n, k |-> k, f |-> f, rd |-> rd,
     fresh |-> IF rd = "" THEN TRUE ELSE ~StaleOf(st, rd),
     rv |-> IF rd = "" THEN 0 ELSE VerOf(st, rd)]

Logged(st, e) == [st EXCEPT !.log = Append(@, e)]

\* an interior write of content c to field f
Put(st, f, c, n) ==
    [st EXCEPT !.fld[f] = c, !.stale[f] = TRUE, !.ver[f] = n]

Exec(s, st, n) ==
    LET k == s.k
        a == s.a
    IN
    CASE k = "to_zero" ->
           Logged(Put(st, a[1], Zero, n), Event(st, n, k, a[1], ""))
      [] k = "projection_init" ->
           Logged([st EXCEPT !.fld[a[1]] = Zero, !.stale[a[1]] = FALSE, !.ver[a[1]] = n],
                  Event(st, n, k, a[1], ""))
      [] k \in {"projection_T00_project", "projection_T0i_project",
                "projection_Tij_project"} ->
           IF st.pcls = <<>>
           THEN Logged(st, Event(st, n, k, a[1], ""))
           ELSE Logged(Put(st, a[1],
                           ProjectionProject(k, st.fld[a[1]], st.fld[a[2]], s.par, st.pcls),
                           n),
                       Event(st, n, k, a[1], a[2]))
      [] k \in {"projection_T00_comm", "projection_T0i_comm", "projection_Tij_comm"} ->
           Logged([st EXCEPT !.fld[a[1]] = ProjectionComm(k, @),
                             !.stale[a[1]] = FALSE, !.ver[a[1]] = n],
                  Event(st, n, k, a[1], ""))
      [] k = "prepareFTsource8" ->
           Logged(Put(st, a[4],
                      PrepareFTsource8(st.fld[a[1]], st.fld[a[2]], st.fld[a[3]], s.par), n),
                  Event(st, n, k, a[4], a[1]))
      [] k = "prepareFTsource4" ->
           Logged(Put(st, a[3], PrepareFTsource4(st.fld[a[1]], st.fld[a[2]], s.par), n),
                  Event(st, n, k, a[3], a[1]))
      [] k = "fft_forward" ->
           LET pl == PlanOf(a[1])
           IN  Logged(Put(st, pl[2], FFTForward(st.fld[pl[1]]), n),
                      Event(st, n, k, pl[2], ""))
      [] k = "fft_backward" ->
           LET pl == PlanOf(a[1])
           IN  Logged(Put(st, pl[1], FFTBackward(st.fld[pl[2]]), n),
                      Event(st, n, k, pl[1], ""))
      [] k = "updateHalo" ->
           IF a[1] = "Fx"
           THEN Logged([st EXCEPT !.fxStale = FALSE], Event(st, n, k, a[1], ""))
           ELSE Logged([st EXCEPT !.stale[a[1]] = FALSE], Event(st, n, k, a[1], ""))
      [] k = "solveModifiedPoissonFT" ->
           Logged(Put(st, a[2], SolveModifiedPoissonFT(st.fld[a[1]], s.par), n),
                  Event(st, n, k, a[2], ""))
      [] k = "projectFTscalar" ->
           Logged(Put(st, a[2], ProjectFTscalar(st.fld[a[1]]), n),
                  Event(st, n, k, a[2], ""))
      [] k = "projectFTvector" ->
           Logged(Put(st, a[2], ProjectFTvector(st.fld[a[1]], s.par), n),
                  Event(st, n, k, a[2], ""))
      [] k = "filter" ->
           Logged(Put(st, a[1], ApplyFunctor(st.fld[a[1]], s.par), n),
                  Event(st, n, k, a[1], ""))
      [] k = "gradient" ->
           Logged([st EXCEPT !.fx = Gradient(st.fld[a[2]], s.par[1][1]),
                             !.fxStale = TRUE],
                  Event(st, n, k, a[1], a[2]))
      [] k = "interpolate" ->
           LET i == s.par[1][1] + 1
           IN  Logged([st EXCEPT !.pcls =
                          [j \in 1..Len(st.pcls) |->
                              [st.pcls[j] EXCEPT !.acc[i] = Interpolate(st.fx, st.pcls[j]),
                                                 !.by[i] = n]]],
                      Event(st, n, k, "acc", IF st.pcls = <<>> THEN "" ELSE a[1]))

RECURSIVE RunAll(_, _, _)
RunAll(stmts, st, n) ==
    IF stmts = <<>> THEN st ELSE RunAll(Tail(stmts), Exec(Head(stmts), st, n), n)

(***************************************************************************)
(* The engine as a state machine: Init is the state the constructor        *)
(* leaves, and each action is one call of a public member function.        *)
(***************************************************************************)
Allocated(ps) ==
    [fld |-> [f \in Fields |-> Alloc], stale |-> [f \in Fields |-> FALSE],
     ver |-> [f \in Fields |-> 0], pcls |-> ps, log |-> <<>>,
     fx |-> Alloc, fxStale |-> FALSE]

Current ==
    [fld |-> fld, stale |-> stale, ver |-> ver, pcls |-> pcls, log |-> log,
     fx |-> Alloc, fxStale |-> FALSE]

PkIdle ==
    /\ pkN = 0 /\ pkComps = 0 /\ pkProcs = 0
    /\ pkOwner = <<>> /\ pkNorm = <<>> /\ pkPc = <<>>
    /\ pkPw = <<>> /\ pkSent = <<>> /\ pkAvg = <<>>

KrIdle ==
    /\ kPhi = <<>> /\ kPart = <<>> /\ kI = 0 /\ kFx = <<>> /\ kPc = "idle"

MnIdle ==
    /\ mSim = <<>> /\ mPc = "idle" /\ mCycle = 0 /\ mT = 0
    /\ mDtau = <<>> /\ mCount = <<>> /\ mLog = <<>>

StIdle ==
    /\ sProcs = 0 /\ sPc = <<>> /\ sCycle = <<>> /\ sFile = FALSE

Init ==
    /\ \E n \in 0..MaxParticles :
         LET r == RunAll(ConstructorStmts, Allocated(Ensemble(n)), 0)
         IN  /\ fld = r.fld /\ stale = r.stale /\ ver = r.ver
             /\ pcls = r.pcls /\ log = r.log
    /\ ops = <<>>
    /\ PkIdle /\ KrIdle /\ MnIdle /\ StIdle

Call(name, par, stmts) ==
    /\ Len(ops) < MaxOps
    /\ LET r == RunAll(stmts, Current, Len(ops) + 1)
       IN  /\ fld' = r.fld /\ stale' = r.stale /\ ver' = r.ver
           /\ pcls' = r.pcls /\ log' = r.log
    /\ ops' = Append(ops, [name |-> name, par |-> par])
    /\ UNCHANGED <<pkVars, krVars, mnVars, stVars>>

\* the values the driver passes
AValues == {RInt(1)}
GValues == {RInt(1)}
DtValues == {RInt(1)}
\* <<Hc, Omega>>
HcOmegaValues == {<<RInt(0), RInt(0)>>, <<RInt(1), RInt(0)>>, <<RInt(1), RInt(1)>>}
FValues == {RInt(1)}
FunctorIds == {RInt(1)}

Sample ==
    \E a \in AValues : Call("sample", <<a>>, SampleStmts(a))

ComputePhi ==
    \E a \in AValues, G \in GValues, dt \in DtValues, ho \in HcOmegaValues :
        Call("compute_phi", <<a, ho[1], G, dt, ho[2]>>,
             ComputePhiStmts(a, ho[1], G, dt, ho[2]))

ComputeChi ==
    \E f \in FValues : Call("compute_chi", <<f>>, ComputeChiStmts(f))

ComputeBi ==
    \E f \in FValues : Call("compute_Bi", <<f>>, ComputeBiStmts(f))

ComputePotential ==
    \E a \in AValues, G \in GValues, dt \in DtValues, ho \in HcOmegaValues :
        Call("compute_potential", <<a, ho[1], G, dt, ho[2]>>,
             ComputePotentialStmts(a, ho[1], G, dt, ho[2]))

ApplyFilterKspace ==
    \E f \in FunctorIds : Call("apply_filter_kspace", <<f>>, ApplyFilterKspaceStmts(f))

ApplyFilterRspace ==
    \E f \in FunctorIds : Call("apply_filter_rspace", <<f>>, ApplyFilterRspaceStmts(f))

ComputeForces ==
    Call("compute_forces", <<>>, ComputeForcesStmts)

Next ==
    \/ Sample
    \/ ComputePhi
    \/ ComputeChi
    \/ ComputeBi
    \/ ComputePotential
    \/ ApplyFilterKspace
    \/ ApplyFilterRspace
    \/ ComputeForces

Spec == Init /\ [][Next]_vars

(***************************************************************************)
(* Auxiliary definitions for the statements about the engine.              *)
(***************************************************************************)
EventsOf(n) == SelectSeq(log, LAMBDA e : e.op = n)

\* position of the first event (k, f) in a sequence of events, 0 when absent
RECURSIVE PosFrom(_, _, _, _)
PosFrom(evs, k, f, i) ==
    IF i > Len(evs) THEN 0
    ELSE IF evs[i].k = k /\ evs[i].f = f THEN i
    ELSE PosFrom(evs, k, f, i + 1)

Pos(evs, k, f) == PosFrom(evs, k, f, 1)

Called(n, name) == n \in 1..Len(ops) /\ ops[n].name = name

\* a field chain: source, mode-space source, mode-space potential, potential
Chains ==
    { <<"T00", "T00_FT", "phi_FT", "phi">>,
      <<"Tij", "Tij_FT", "chi_FT", "chi">>,
      <<"T0i", "T0i_FT", "Bi_FT", "Bi">> }

ChainOrder ==
    <<"reset", "deposit", "halo_source", "forward", "solve", "backward",
      "halo_potential">>

\* the step of chain c that event e is, "other" when it is none
StepOf(c, e) ==
    CASE e.k = "projection_init" /\ e.f = c[1] -> "reset"
      [] e.k \in {"projection_T00_project", "projection_T0i_project",
                  "projection_Tij_project"} /\ e.f = c[1] -> "deposit"
      [] e.k \in {"projection_T00_comm", "projection_T0i_comm",
                  "projection_Tij_comm", "updateHalo"} /\ e.f = c[1] -> "halo_source"
      [] e.k = "fft_forward" /\ e.f = c[2] -> "forward"
      [] e.k \in {"solveModifiedPoissonFT", "projectFTscalar", "projectFTvector"}
           /\ e.f = c[3] -> "solve"
      [] e.k = "fft_backward" /\ e.f = c[4] -> "backward"
      [] e.k = "updateHalo" /\ e.f = c[4] -> "halo_potential"
      [] OTHER -> "other"

RECURSIVE StepsIn(_, _)
StepsIn(c, evs) ==
    IF evs = <<>> THEN <<>>
    ELSE LET s == StepOf(c, Head(evs))
         IN  (IF s = "other" THEN <<>> ELSE <<s>>) \o StepsIn(c, Tail(evs))

AllZero == \A f \in RealFields : fld[f] = Zero

ZeroInputCycle ==
    /\ pcls = <<>>
    /\ Len(ops) = 2
    /\ ops[1].name = "sample"
    /\ ops[2].name = "compute_potential"

(***************************************************************************)
(* C1 (as amended).  Zero-input invariant: from a freshly constructed      *)
(* engine and an empty ensemble, after sample followed by                  *)
(* compute_potential with Omega = 0 (any Hc), every cell of T00, T0i, Tij, *)
(* phi, chi and Bi is exactly zero.                                        *)
(***************************************************************************)
C1_ZeroInputOmegaZero ==
    (ZeroInputCycle /\ RIsZero(ops[2].par[5])) => AllZero

\* C1 as stated: the same for every Omega, Omega # 0 included
C1_ZeroInputAnyOmega ==
    ZeroInputCycle => AllZero

C1_Witness ==
    /\ ZeroInputCycle
    /\ RIsZero(ops[2].par[5])
    /\ ~RIsZero(ops[2].par[2])
    /\ AllZero

(***************************************************************************)
(* C2.  In every sample followed by compute_potential, the events of each  *)
(* field chain (T00/phi, Tij/chi, T0i/Bi) are exactly: reset, deposit,     *)
(* halo refresh of the source, forward transform of the source, mode-space *)
(* solve, backward transform of the potential, halo refresh of the         *)
(* potential, in this order, each once.                                    *)
(***************************************************************************)
C2_ChainOrder ==
    \A n \in 1..Len(ops) :
        (Called(n, "sample") /\ Called(n + 1, "compute_potential")) =>
            \A c \in Chains :
                StepsIn(c, EventsOf(n) \o EventsOf(n + 1)) = ChainOrder

C2_Witness ==
    /\ pcls # <<>>
    /\ Called(2, "sample") /\ Called(3, "compute_potential")
    /\ \A c \in Chains : StepsIn(c, EventsOf(2) \o EventsOf(3)) = ChainOrder
    /\ fld["phi"] # Zero /\ fld["chi"] # Zero /\ fld["Bi"] # Zero

(***************************************************************************)
(* C3.  Halo freshness: whenever a call reads a position-space field at    *)
(* neighbouring cells (phi in sample, compute_phi, compute_chi and         *)
(* compute_forces, the local gradient field Fx in compute_forces), the     *)
(* field's halo has been refreshed after its last interior write.          *)
(***************************************************************************)
C3_HaloFresh ==
    \A i \in 1..Len(log) : log[i].rd # "" => log[i].fresh

C3_Witness ==
    /\ pcls # <<>>
    /\ Called(1, "compute_phi") /\ Called(2, "apply_filter_rspace")
    /\ Called(3, "compute_forces")
    /\ \E i \in 1..Len(log) :
          log[i].op = 3 /\ log[i].k = "gradient" /\ log[i].rd = "phi"
          /\ log[i].rv = 2 /\ log[i].fresh
    /\ Cardinality({i \in 1..Len(log) :
          log[i].op = 3 /\ log[i].k = "interpolate" /\ log[i].rd = "Fx"
          /\ log[i].fresh}) = 3

(***************************************************************************)
(* C4.  In every compute_potential call the phi solve, its backward        *)
(* transform and its halo refresh included, is complete before the chi     *)
(* source is built, and the phi that the chi source construction reads is  *)
(* the one this call wrote.                                                *)
(***************************************************************************)
C4_PhiBeforeChi ==
    \A n \in 1..Len(ops) :
        Called(n, "compute_potential") =>
            LET evs == EventsOf(n)
                solved == Pos(evs, "solveModifiedPoissonFT", "phi_FT")
                back == Pos(evs, "fft_backward", "phi")
                halo == Pos(evs, "updateHalo", "phi")
                chi == Pos(evs, "prepareFTsource4", "Tij")
            IN  /\ 0 < solved /\ solved < back /\ back < halo /\ halo < chi
                /\ evs[chi].rd = "phi"
                /\ evs[chi].rv = n
                /\ evs[chi].fresh

C4_Witness ==
    /\ Called(1, "compute_potential") /\ Called(2, "sample")
    /\ Called(3, "compute_potential")
    /\ pcls # <<>>
    /\ LET evs == EventsOf(3)
       IN  evs[Pos(evs, "prepareFTsource4", "Tij")].rv = 3

(***************************************************************************)
(* C5.  compute_chi and compute_Bi commute: from every engine state,       *)
(* compute_chi(f1) then compute_Bi(f2) leaves the twelve fields (and the   *)
(* state of their halos) as compute_Bi(f2) then compute_chi(f1) does.      *)
(***************************************************************************)
ChiThenBi(f1, f2) ==
    RunAll(ComputeBiStmts(f2),
           RunAll(ComputeChiStmts(f1), Current, Len(ops) + 1), Len(ops) + 2)

BiThenChi(f1, f2) ==
    RunAll(ComputeChiStmts(f1),
           RunAll(ComputeBiStmts(f2), Current, Len(ops) + 1), Len(ops) + 2)

\* <<f1, f2>>
CommuteFactors == {<<RInt(1), RInt(1)>>, <<RInt(1), RInt(2)>>}

C5_ChiBiCommute ==
    \A ff \in CommuteFactors :
        LET cb == ChiThenBi(ff[1], ff[2])
            bc == BiThenChi(ff[1], ff[2])
        IN  cb.fld = bc.fld /\ cb.stale = bc.stale

C5_Witness ==
    /\ pcls # <<>>
    /\ Called(1, "sample") /\ Called(2, "compute_chi") /\ Called(3, "compute_Bi")
    /\ fld["chi"] # Zero /\ fld["Bi"] # Zero
    /\ \E ff \in CommuteFactors :
          /\ ChiThenBi(ff[1], ff[2]).fld = BiThenChi(ff[1], ff[2]).fld
          /\ ChiThenBi(ff[1], ff[2]).fld # fld

(***************************************************************************)
(* C6.  compute_forces is a pure gather: a call leaves the twelve fields,  *)
(* their halos, and every particle's position, momentum and cell           *)
(* unchanged, and writes all 3 acceleration components of every particle.  *)
(***************************************************************************)
ForcesCalled == ops' # ops /\ ops'[Len(ops')].name = "compute_forces"

C6_ForcesFrame ==
    [][ForcesCalled =>
          /\ fld' = fld /\ stale' = stale /\ ver' = ver
          /\ Len(pcls') = Len(pcls)
          /\ \A j \in 1..Len(pcls) :
                /\ pcls'[j].pos = pcls[j].pos
                /\ pcls'[j].q = pcls[j].q
                /\ pcls'[j].cell = pcls[j].cell
                /\ \A i \in 1..3 :
                      /\ pcls'[j].by[i] = Len(ops')
                      /\ pcls'[j].acc[i] = Interpolate(Gradient(fld["phi"], i - 1), pcls[j])
    ]_vars

C6_Witness ==
    /\ pcls # <<>>
    /\ Called(3, "compute_forces")
    /\ \A j \in 1..Len(pcls) : \A i \in 1..3 :
          pcls[j].by[i] = 3 /\ pcls[j].acc[i].op = "interpolate"

(***************************************************************************)
(* power_spectrum (power.hpp).                                             *)
(*                                                                         *)
(* The mode-space lattice of an N^3 real field stores the modes            *)
(* <<x0, x1, x2>>, x0 in 0..N/2 and x1, x2 in 0..N-1 (real-to-complex      *)
(* storage); each process holds a block of it.  norm(value) is a natural   *)
(* number.                                                                 *)
(***************************************************************************)
Modes(N) == (0..(N \div 2)) \X (0..(N - 1)) \X (0..(N - 1))

KNyquist(N) == (N - 1) \div 2

SignedMode(n, N) == IF n <= KNyquist(N) THEN n ELSE N - n

\* global_mode: the sum over the three axes of k_i * k_i
GlobalMode(m, N) ==
    SignedMode(m[1], N) * SignedMode(m[1], N)
    + SignedMode(m[2], N) * SignedMode(m[2], N)
    + SignedMode(m[3], N) * SignedMode(m[3], N)

\* floor(sqrt(g) + 0.5) for a natural number g
RoundSqrt(g) ==
    CHOOSE r \in 0..g :
        /\ g <= r * r + r
        /\ (r = 0 \/ g > (r - 1) * (r - 1) + (r - 1))

BinOf(m, N) == RoundSqrt(GlobalMode(m, N))

ZeroPw(N) == [i \in 1..(KNyquist(N) + 1) |-> <<0, 0>>]

\* F.components() > 1: the call throws
ComponentsRejected_Above3(c) == c > 3

ComponentsRejected(c) == c > 1

\* the body of the for_each lambda for the mode m of value norm z2
AccumMode_AlwaysDouble(pw, m, z2, N) ==
    LET index == BinOf(m, N)
    IN  IF index >= Len(pw) THEN pw
        ELSE [pw EXCEPT ![index + 1] = <<@[1] + 2, @[2] + z2 + z2>>]

AccumMode(pw, m, z2, N) ==
    LET global_mode == GlobalMode(m, N)
        index == RoundSqrt(global_mode)
    IN  IF index >= Len(pw) THEN pw
        ELSE IF global_mode > 0
             THEN [pw EXCEPT ![index + 1] = <<(@[1] + 1) + 1, (@[2] + z2) + z2>>]
             ELSE [pw EXCEPT ![index + 1] = <<@[1] + 1, @[2] + z2>>]

\* the i-th site of the mode lattice in iteration order, i = 1..NumModes(N)
NumModes(N) == ((N \div 2) + 1) * N * N

SiteAt(i, N) == <<(i - 1) \div (N * N), ((i - 1) \div N) % N, (i - 1) % N>>

\* F.for_each over the sites lo..hi that belong to the local grid `own`: the
\* sites lo..mid are visited first, then mid+1..hi (pw never changes its size)
RECURSIVE ForEachFrom(_, _, _, _, _, _)
ForEachFrom(pw, lo, hi, own, norm, N) ==
    IF lo > hi THEN pw
    ELSE IF lo = hi
    THEN (IF SiteAt(lo, N) \in own
          THEN AccumMode(pw, SiteAt(lo, N), norm[SiteAt(lo, N)], N)
          ELSE pw)
    ELSE LET mid == (lo + hi) \div 2
             left == ForEachFrom(pw, lo, mid, own, norm, N)
         IN  IF Len(left) # Len(pw) THEN left
             ELSE ForEachFrom(left, mid + 1, hi, own, norm, N)

ForEach(pw, own, norm, N) == ForEachFrom(pw, 1, NumModes(N), own, norm, N)

\* detail::my_pair_sum
MyPairSum_DropsSecond(x, y) == <<x[1] + y[1], y[2]>>

MyPairSum(x, y) == <<x[1] + y[1], x[2] + y[2]>>

\* all_reduce of the contributions `sent`, combined in the order `ord`
RECURSIVE ReduceFrom(_, _, _, _)
ReduceFrom(acc, sent, ord, i) ==
    IF i > Cardinality(DOMAIN ord) THEN acc
    ELSE ReduceFrom([b \in 1..Len(acc) |-> MyPairSum(acc[b], sent[ord[i]][b])],
                    sent, ord, i + 1)

AllReduce(sent, ord) == ReduceFrom(sent[ord[1]], sent, ord, 2)

\* the orders in which the contributions of the processes S may be combined
Orders(S) == {f \in [S -> S] : \A x \in S, y \in S : f[x] = f[y] => x = y}

\* the average dividing also when the count is 0: 0/0 is not a number
Average_AlwaysDivides(pw, N) ==
    [i \in 1..Len(pw) |->
        IF pw[i][1] > 0
        THEN RMul(RDiv(RInt(pw[i][2]), RInt(pw[i][1])), <<1, N * N * N>>)
        ELSE <<0, 0>>]

\* the returned sequence
Average_Unscaled(pw, N) ==
    [i \in 1..Len(pw) |->
        IF pw[i][1] > 0 THEN RDiv(RInt(pw[i][2]), RInt(pw[i][1])) ELSE RInt(0)]

Average(pw, N) ==
    [i \in 1..Len(pw) |->
        LET avg == IF pw[i][1] > 0 THEN RDiv(RInt(pw[i][2]), RInt(pw[i][1]))
                   ELSE RInt(0)
        IN  RMul(avg, <<1, N * N * N>>)]

(***************************************************************************)
(* The inputs of power_spectrum: a field (zero, one unit mode <<x, y, y>>, *)
(* or a field with every mode non-zero), and a decomposition of the mode   *)
(* lattice in blocks along axis ax at the cuts c.                          *)
(***************************************************************************)
PkFields(N) ==
    {[m \in Modes(N) |-> 0]}
    \cup {[m \in Modes(N) |-> IF m = u THEN 1 ELSE 0] :
             u \in {v \in Modes(N) : v[2] = v[3]}}
    \cup {[m \in Modes(N) |-> 1 + ((m[1] + 2 * m[2] + 3 * m[3]) % 3)]}

PkOwners(N, P) ==
    IF P = 1 THEN {[m \in Modes(N) |-> 1]}
    ELSE {[m \in Modes(N) |-> 1 + Cardinality({c \in cuts : c <= m[ax]})] :
             ax \in {2, 3},
             cuts \in {C \in SUBSET (1..(N - 1)) : Cardinality(C) = P - 1}}

Procs == 1..pkProcs

LocalModes(p) == {m \in DOMAIN pkOwner : pkOwner[m] = p}

EngIdle ==
    LET r == RunAll(ConstructorStmts, Allocated(<<>>), 0)
    IN  /\ fld = r.fld /\ stale = r.stale /\ ver = r.ver
        /\ pcls = r.pcls /\ log = r.log /\ ops = <<>>

InitPk ==
    /\ EngIdle /\ KrIdle /\ MnIdle /\ StIdle
    /\ pkN \in 2..MaxN
    /\ pkComps \in {1, 3}
    /\ pkProcs \in 1..MaxProcs
    /\ pkProcs < pkN
    /\ pkOwner \in PkOwners(pkN, pkProcs)
    /\ pkNorm \in PkFields(pkN)
    /\ pkPc = [p \in Procs |-> "entry"]
    /\ pkPw = [p \in Procs |-> <<>>]
    /\ pkSent = [p \in Procs |-> <<>>]
    /\ pkAvg = [p \in Procs |-> <<>>]

\* lines 36-48: the locals are set up and the component count is checked
PkEnter(p) ==
    /\ pkPc[p] = "entry"
    /\ pkPw' = [pkPw EXCEPT ![p] = ZeroPw(pkN)]
    /\ pkPc' = [pkPc EXCEPT ![p] = IF ComponentsRejected(pkComps) THEN "thrown"
                                   ELSE "for_each"]
    /\ UNCHANGED <<pkN, pkComps, pkProcs, pkOwner, pkNorm, pkSent, pkAvg>>
    /\ UNCHANGED <<engVars, krVars, mnVars, stVars>>

\* lines 51-80: the local modes are accumulated; the process then enters all_reduce
PkForEach(p) ==
    /\ pkPc[p] = "for_each"
    /\ LET pw == ForEach(pkPw[p], LocalModes(p), pkNorm, pkN)
       IN  /\ pkPw' = [pkPw EXCEPT ![p] = pw]
           /\ pkSent' = [pkSent EXCEPT ![p] = pw]
    /\ pkPc' = [pkPc EXCEPT ![p] = "all_reduce"]
    /\ UNCHANGED <<pkN, pkComps, pkProcs, pkOwner, pkNorm, pkAvg>>
    /\ UNCHANGED <<engVars, krVars, mnVars, stVars>>

\* lines 82-85: the collective completes on a process once every process has
\* entered it; the process receives the contributions combined in some order
PkAllReduce(p) ==
    /\ pkPc[p] = "all_reduce"
    /\ \A q \in Procs : pkSent[q] # <<>>
    /\ \E ord \in Orders(Procs) :
          pkPw' = [pkPw EXCEPT ![p] = AllReduce(pkSent, ord)]
    /\ pkPc' = [pkPc EXCEPT ![p] = "average"]
    /\ UNCHANGED <<pkN, pkComps, pkProcs, pkOwner, pkNorm, pkSent, pkAvg>>
    /\ UNCHANGED <<engVars, krVars, mnVars, stVars>>

\* lines 86-94: the averages are computed and returned
PkAverage(p) ==
    /\ pkPc[p] = "average"
    /\ pkAvg' = [pkAvg EXCEPT ![p] = Average(pkPw[p], pkN)]
    /\ pkPc' = [pkPc EXCEPT ![p] = "returned"]
    /\ UNCHANGED <<pkN, pkComps, pkProcs, pkOwner, pkNorm, pkPw, pkSent>>
    /\ UNCHANGED <<engVars, krVars, mnVars, stVars>>

NextPk ==
    \/ \E p \in Procs : PkEnter(p)
    \/ \E p \in Procs : PkForEach(p)
    \/ \E p \in Procs : PkAllReduce(p)
    \/ \E p \in Procs : PkAverage(p)

SpecPk == InitPk /\ [][NextPk]_vars

(***************************************************************************)
(* C7.  A field with more than one component is rejected at call entry: on *)
(* every process no mode is accumulated, the collective reduction is not   *)
(* entered and no spectrum is returned; and, whatever the component count, *)
(* no process waits in the reduction while another has failed.             *)
(***************************************************************************)
C7_RejectedAtEntry ==
    /\ pkComps > 1 =>
          \A p \in Procs :
             /\ pkPc[p] \in {"entry", "thrown"}
             /\ pkPw[p] \in {<<>>, ZeroPw(pkN)}
             /\ pkSent[p] = <<>>
             /\ pkAvg[p] = <<>>
    /\ ~ \E p \in Procs, q \in Procs :
            pkPc[p] = "all_reduce" /\ pkPc[q] = "thrown"

C7_Witness ==
    /\ pkComps > 1 /\ pkProcs > 1
    /\ \A p \in Procs : pkPc[p] = "thrown" /\ pkAvg[p] = <<>>

(***************************************************************************)
(* C8.  For a field that is zero except for one stored mode of unit        *)
(* amplitude whose bin b is in range, the returned spectrum is zero in     *)
(* every bin other than b, and in bin b it is 1/(M * N^3), M the number of *)
(* stored modes of bin b (1/N^3 for b = 0, where M = 1).                   *)
(***************************************************************************)
UnitModes ==
    {u \in DOMAIN pkNorm :
        pkNorm[u] = 1 /\ \A m \in DOMAIN pkNorm : m # u => pkNorm[m] = 0}

ModesInBin(b, N) == {m \in Modes(N) : BinOf(m, N) = b}

Returned(p) == pkPc[p] = "returned"

C8_UnitModeAveraged ==
    \A u \in UnitModes : \A p \in Procs :
        (Returned(p) /\ BinOf(u, pkN) <= KNyquist(pkN)) =>
            \A b \in 0..KNyquist(pkN) :
                pkAvg[p][b + 1] =
                    IF b = BinOf(u, pkN)
                    THEN RDiv(RInt(1),
                              RInt(Cardinality(ModesInBin(b, pkN)) * pkN * pkN * pkN))
                    ELSE RInt(0)

\* C8 as stated: bin b holds 1/N^3 for every b
C8_UnitModeOneOverN3 ==
    \A u \in UnitModes : \A p \in Procs :
        (Returned(p) /\ BinOf(u, pkN) <= KNyquist(pkN)) =>
            \A b \in 0..KNyquist(pkN) :
                pkAvg[p][b + 1] =
                    IF b = BinOf(u, pkN)
                    THEN RDiv(RInt(1), RInt(pkN * pkN * pkN))
                    ELSE RInt(0)

C8_Witness ==
    \E u \in UnitModes :
        /\ pkProcs > 1
        /\ BinOf(u, pkN) = 1 /\ KNyquist(pkN) >= 1
        /\ Cardinality(ModesInBin(1, pkN)) > 1
        /\ \A p \in Procs :
              /\ Returned(p)
              /\ pkAvg[p][1] = RInt(0)
              /\ pkAvg[p][2] =
                    RDiv(RInt(1),
                         RInt(Cardinality(ModesInBin(1, pkN)) * pkN * pkN * pkN))

(***************************************************************************)
(* C9.  The double-count rule: a stored mode whose bin is in range adds 2  *)
(* to the count and 2*|value|^2 to the sum of its bin when its folded      *)
(* squared wavenumber is positive, and 1 and |value|^2 to bin 0 when it is *)
(* the DC mode; it leaves the other bins alone.  After the reduction bin 0 *)
(* has count 1 and every other bin an even count.                          *)
(***************************************************************************)
DoubleCounted(pw, m, z2, N) ==
    LET b == BinOf(m, N)
        w == IF GlobalMode(m, N) > 0 THEN 2 ELSE 1
    IN  [i \in 1..Len(pw) |->
            IF i = b + 1 THEN <<pw[i][1] + w, pw[i][2] + w * z2>> ELSE pw[i]]

Reduced(p) == pkPc[p] \in {"average", "returned"}

C9_DoubleCount ==
    \A p \in Procs :
        /\ pkPc[p] = "for_each" =>
              \A m \in LocalModes(p) :
                  /\ GlobalMode(m, pkN) = 0 <=> m = <<0, 0, 0>>
                  /\ GlobalMode(m, pkN) = 0 => BinOf(m, pkN) = 0
                  /\ AccumMode(pkPw[p], m, pkNorm[m], pkN)
                        = DoubleCounted(pkPw[p], m, pkNorm[m], pkN)
        /\ pkPc[p] = "all_reduce" =>
              \A b \in 0..KNyquist(pkN) :
                  pkSent[p][b + 1][1] =
                      2 * Cardinality({m \in LocalModes(p) :
                                         BinOf(m, pkN) = b /\ GlobalMode(m, pkN) > 0})
                      + Cardinality({m \in LocalModes(p) :
                                       BinOf(m, pkN) = b /\ GlobalMode(m, pkN) = 0})
        /\ Reduced(p) =>
              /\ pkPw[p][1][1] = 1
              /\ \A b \in 1..KNyquist(pkN) : pkPw[p][b + 1][1] % 2 = 0

C9_Witness ==
    /\ pkProcs > 1 /\ KNyquist(pkN) >= 1
    /\ \A m \in DOMAIN pkNorm : pkNorm[m] > 0
    /\ \A p \in Procs :
          /\ Reduced(p)
          /\ pkSent[p][2][1] > 0
          /\ pkPw[p][1] = <<1, pkNorm[<<0, 0, 0>>]>>
          /\ pkPw[p][2][1] = 2 * Cardinality(ModesInBin(1, pkN))

(***************************************************************************)
(* C10.  The reduced (count, sum) of every bin is, on every process, the   *)
(* one a single process holding all the stored modes accumulates, whatever *)
(* the partition of the modes and the order of the combination; hence the  *)
(* returned spectrum is the same on every process.                         *)
(***************************************************************************)
SingleProcessPw == ForEach(ZeroPw(pkN), DOMAIN pkNorm, pkNorm, pkN)

AxisModes(N) ==
    {m \in Modes(N) : Cardinality({l \in 1..3 : m[l] = 0}) >= 2}

C11_AxisModesFolded ==
    \A p \in Procs :
        pkPc[p] = "all_reduce" =>
            /\ \A n \in 0..(pkN - 1) : SignedMode(n, pkN) \in 0..KNyquist(pkN)
            /\ \A m \in AxisModes(pkN) \cap LocalModes(p) :
                   /\ BinOf(m, pkN) + 1 \in DOMAIN pkSent[p]
                   /\ pkSent[p][BinOf(m, pkN) + 1][1] > 0

\* the same for the odd grid sizes only
C11_OddN ==
    pkN % 2 = 1 => C11_AxisModesFolded

(***************************************************************************)
(* The averaging loop of power_spectrum (lines 86-94) as a function of the *)
(* reduced pw: the process is placed after all_reduce with any pw whose    *)
(* bins hold a count and a sum, a bin of count 0 holding the sum 0.        *)
(***************************************************************************)
PwValues(N) ==
    [1..(KNyquist(N) + 1) ->
        {cs \in (0..MaxCount) \X (0..MaxSum) : cs[1] = 0 => cs[2] = 0}]

InitAvg ==
    /\ EngIdle /\ KrIdle /\ MnIdle /\ StIdle
    /\ pkN \in 2..MaxN
    /\ pkComps = 1
    /\ pkProcs = 1
    /\ pkOwner = <<>>
    /\ pkNorm = <<>>
    /\ pkPc = [p \in Procs |-> "average"]
    /\ pkPw \in [Procs -> PwValues(pkN)]
    /\ pkSent = pkPw
    /\ pkAvg = [p \in Procs |-> <<>>]

NextAvg == \E p \in Procs : PkAverage(p)

SpecAvg == InitAvg /\ [][NextAvg]_vars

(***************************************************************************)
(* C12.  Every entry of the returned sequence is a number: 0 for a bin of  *)
(* count 0, and sum/count/N^3 for a bin of positive count; the sequence    *)
(* has k_nyquist + 1 entries.                                              *)
(***************************************************************************)
C12_AverageDefined ==
    \A p \in Procs :
        Returned(p) =>
            /\ Len(pkAvg[p]) = KNyquist(pkN) + 1
            /\ \A i \in 1..Len(pkAvg[p]) :
                  LET count == pkPw[p][i][1]
                      sum == pkPw[p][i][2]
                      avg == pkAvg[p][i]
                  IN  /\ avg[2] > 0
                      /\ count = 0 => avg[1] = 0
                      /\ count > 0 =>
                            avg[1] * count * pkN * pkN * pkN = sum * avg[2]

C12_Witness ==
    /\ pkProcs = 1 /\ Returned(1)
    /\ \E i \in 1..Len(pkAvg[1]), j \in 1..Len(pkAvg[1]) :
          /\ pkPw[1][i] = <<0, 0>> /\ pkAvg[1][i] = <<0, 1>>
          /\ pkPw[1][j][1] > 0 /\ pkPw[1][j][2] > 0
          /\ pkAvg[1][j] = RDiv(RInt(pkPw[1][j][2]),
                                 RInt(pkPw[1][j][1] * pkN * pkN * pkN))

(***************************************************************************)
(* compute_forces (gr_pm.hpp 240-301) on a concrete periodic lattice of    *)
(* KSide^3 sites with one particle.  phi holds integers; Fx and acc are    *)
(* exact rationals.                                                        *)
(***************************************************************************)
KSites == (0..(KSide - 1)) \X (0..(KSide - 1)) \X (0..(KSide - 1))

\* the site x + off, the halo repeating the lattice periodically
KAt(x, off) == [l \in 1..3 |-> (x[l] + off[l] + 2 * KSide) % KSide]

\* the displacement of d sites along axis i (i = 0, 1, 2)
KStep(i, d) == [l \in 1..3 |-> IF l = i + 1 THEN d ELSE 0]

\* dx = 1.0/pcls.lattice().size()[0]
KDx == <<1, KSide>>

\* lines 256-259, with factor = 1/dx
GradientAt(phi, x, i) ==
    RMul(RDiv(RInt(1), KDx),
         RSub(RMul(<<2, 3>>, RInt(phi[KAt(x, KStep(i, 1))] - phi[KAt(x, KStep(i, -1))])),
              RMul(<<1, 12>>, RInt(phi[KAt(x, KStep(i, 2))] - phi[KAt(x, KStep(i, -2))]))))

\* lines 266-268
KRefDist(part) ==
    [l \in 1..3 |-> RSub(RDiv(part.pos[l], KDx), RInt(part.cell[l]))]

ROne == <<1, 1>>

\* the fourth term reading Fx(xpart+2+0) instead of Fx(xpart+1+0)
CornerTerms_ShiftedVertex(r) ==
    << [w |-> RMul(RMul(RSub(ROne, r[1]), RSub(ROne, r[2])), RSub(ROne, r[3])),
        off |-> <<0, 0, 0>>],
       [w |-> RMul(RMul(r[1], RSub(ROne, r[2])), RSub(ROne, r[3])),
        off |-> <<1, 0, 0>>],
       [w |-> RMul(RMul(RSub(ROne, r[1]), r[2]), RSub(ROne, r[3])),
        off |-> <<0, 1, 0>>],
       [w |-> RMul(RMul(r[1], r[2]), RSub(ROne, r[3])),
        off |-> <<1, 0, 1>>],
       [w |-> RMul(RMul(RSub(ROne, r[1]), RSub(ROne, r[2])), r[3]),
        off |-> <<0, 0, 1>>],
       [w |-> RMul(RMul(r[1], RSub(ROne, r[2])), r[3]),
        off |-> <<1, 0, 1>>],
       [w |-> RMul(RMul(RSub(ROne, r[1]), r[2]), r[3]),
        off |-> <<0, 1, 1>>],
       [w |-> RMul(RMul(r[1], r[2]), r[3]),
        off |-> <<1, 1, 1>>] >>

\* the last weight written (ref_dist[0])*(ref_dist[1])*(1-ref_dist[2])
CornerTerms_WrongWeight(r) ==
    << [w |-> RMul(RMul(RSub(ROne, r[1]), RSub(ROne, r[2])), RSub(ROne, r[3])),
        off |-> <<0, 0, 0>>],
       [w |-> RMul(RMul(r[1], RSub(ROne, r[2])), RSub(ROne, r[3])),
        off |-> <<1, 0, 0>>],
       [w |-> RMul(RMul(RSub(ROne, r[1]), r[2]), RSub(ROne, r[3])),
        off |-> <<0, 1, 0>>],
       [w |-> RMul(RMul(r[1], r[2]), RSub(ROne, r[3])),
        off |-> <<1, 1, 0>>],
       [w |-> RMul(RMul(RSub(ROne, r[1]), RSub(ROne, r[2])), r[3]),
        off |-> <<0, 0, 1>>],
       [w |-> RMul(RMul(r[1], RSub(ROne, r[2])), r[3]),
        off |-> <<1, 0, 1>>],
       [w |-> RMul(RMul(RSub(ROne, r[1]), r[2]), r[3]),
        off |-> <<0, 1, 1>>],
       [w |-> RMul(RMul(r[1], r[2]), RSub(ROne, r[3])),
        off |-> <<1, 1, 1>>] >>

\* lines 273-295: the eight terms added to grad_i, in order: the weight and
\* the displacement of the vertex of Fx it multiplies
CornerTerms(r) ==
    << [w |-> RMul(RMul(RSub(ROne, r[1]), RSub(ROne, r[2])), RSub(ROne, r[3])),
        off |-> <<0, 0, 0>>],
       [w |-> RMul(RMul(r[1], RSub(ROne, r[2])), RSub(ROne, r[3])),
        off |-> <<1, 0, 0>>],
       [w |-> RMul(RMul(RSub(ROne, r[1]), r[2]), RSub(ROne, r[3])),
        off |-> <<0, 1, 0>>],
       [w |-> RMul(RMul(r[1], r[2]), RSub(ROne, r[3])),
        off |-> <<1, 1, 0>>],
       [w |-> RMul(RMul(RSub(ROne, r[1]), RSub(ROne, r[2])), r[3]),
        off |-> <<0, 0, 1>>],
       [w |-> RMul(RMul(r[1], RSub(ROne, r[2])), r[3]),
        off |-> <<1, 0, 1>>],
       [w |-> RMul(RMul(RSub(ROne, r[1]), r[2]), r[3]),
        off |-> <<0, 1, 1>>],
       [w |-> RMul(RMul(r[1], r[2]), r[3]),
        off |-> <<1, 1, 1>>] >>

\* grad_i after the eight additions
RECURSIVE GradSum(_, _, _, _)
GradSum(terms, Fx, xpart, n) ==
    IF n = 0 THEN RInt(0)
    ELSE RAdd(GradSum(terms, Fx, xpart, n - 1),
              RMul(terms[n].w, Fx[KAt(xpart, terms[n].off)]))

InterpolateAt(Fx, part) ==
    LET terms == CornerTerms(KRefDist(part))
    IN  GradSum(terms, Fx, part.cell, Len(terms))

(***************************************************************************)
(* The inputs: phi (uniform, or varying along every axis), the particle's  *)
(* cell and its offset in the cell.                                        *)
(***************************************************************************)
KFields ==
    { [x \in KSites |-> 3],
      [x \in KSites |-> x[1] * x[1] + 2 * x[2] + 3 * x[3] * x[1]],
      [x \in KSites |-> ((x[1] + 2 * x[2] + 3 * x[3]) * (x[1] + x[2] * x[3] + 1)) % 7] }

KCells ==
    { <<0, 0, 0>>, <<KSide - 1, KSide - 1, KSide - 1>>, <<2, 1, 0>>, <<KSide - 1, 0, 2>> }

\* ref_dist, each component in [0, 1)
KOffsets ==
    { <<<<0, 1>>, <<0, 1>>, <<0, 1>>>>,
      <<<<1, 2>>, <<1, 2>>, <<1, 2>>>>,
      <<<<1, 4>>, <<1, 2>>, <<3, 4>>>>,
      <<<<3, 4>>, <<0, 1>>, <<1, 4>>>>,
      <<<<0, 1>>, <<1, 4>>, <<0, 1>>>>,
      <<<<1, 2>>, <<3, 4>>, <<0, 1>>>> }

KParticle(cell, r) ==
    [cell |-> cell,
     pos  |-> [l \in 1..3 |-> RMul(RAdd(RInt(cell[l]), r[l]), KDx)],
     acc  |-> <<"unset", "unset", "unset">>]

InitKr ==
    /\ EngIdle /\ PkIdle /\ MnIdle /\ StIdle
    /\ kPhi \in KFields
    /\ \E cell \in KCells, r \in KOffsets :
          kPart = KParticle(cell, r)
    /\ kI = 0
    /\ kFx = <<>>
    /\ kPc = "gradient"

\* lines 254-261: Fx for the axis i, and its halo refresh
KrGradient ==
    /\ kPc = "gradient"
    /\ kFx' = [x \in KSites |-> GradientAt(kPhi, x, kI)]
    /\ kPc' = "particles"
    /\ UNCHANGED <<kPhi, kPart, kI>>
    /\ UNCHANGED <<engVars, pkVars, mnVars, stVars>>

\* lines 262-299: part.acc[i] = -grad_i; then ++i
KrParticles ==
    /\ kPc = "particles"
    /\ kPart' = [kPart EXCEPT !.acc[kI + 1] = RSub(RInt(0), InterpolateAt(kFx, kPart))]
    /\ kI' = kI + 1
    /\ kPc' = IF kI + 1 < 3 THEN "gradient" ELSE "done"
    /\ UNCHANGED <<kPhi, kFx>>
    /\ UNCHANGED <<engVars, pkVars, mnVars, stVars>>

NextKr == KrGradient \/ KrParticles

SpecKr == InitKr /\ [][NextKr]_vars

(***************************************************************************)
(* C13.  For a particle on the vertex x of its cell (ref_dist = 0 on the   *)
(* three axes), compute_forces sets acc[i] to                              *)
(*   -( 2/3 (phi(x+e_i) - phi(x-e_i)) - 1/12 (phi(x+2e_i) - phi(x-2e_i)) )/dx  *)
(* for each axis i, the first corner having weight 1 and the other seven   *)
(* weight 0; and for every offset each of the eight weights is the product *)
(* over the axes of ref_dist along the axes its vertex is displaced on and *)
(* of 1 - ref_dist along the others, the eight vertices being distinct.    *)
(***************************************************************************)
KOnVertex == \A l \in 1..3 : RIsZero(KRefDist(kPart)[l])

\* -(8 (phi(x+e) - phi(x-e)) - (phi(x+2e) - phi(x-2e))) * N / 12
CentredDifference(phi, x, i) ==
    RNorm(- KSide * (8 * (phi[KAt(x, KStep(i, 1))] - phi[KAt(x, KStep(i, -1))])
                     - (phi[KAt(x, KStep(i, 2))] - phi[KAt(x, KStep(i, -2))])),
          12)

CornerWeight(r, off) ==
    LET f(l) == IF off[l] = 1 THEN r[l] ELSE RSub(ROne, r[l])
    IN  RMul(RMul(f(1), f(2)), f(3))

RECURSIVE WeightSum(_, _)
WeightSum(terms, n) ==
    IF n = 0 THEN RInt(0) ELSE RAdd(WeightSum(terms, n - 1), terms[n].w)

RLeq(p, q) == p[1] * q[2] <= q[1] * p[2]

KConstants == {RInt(0), RInt(-2), <<5, 3>>}

OneOverA(t) == RInt(MaxCycles + 1 - t)

RLess(p, q) == p[1] * q[2] < q[1] * p[2]

RMin(p, q) == IF RLess(q, p) THEN q ELSE p

\* the settings read at start-up
HconfProfiles ==
    { [t \in 0..(MaxCycles + 1) |-> RInt(1)],
      [t \in 0..(MaxCycles + 1) |-> RInt(MaxCycles + 2 - t)] }

\* decreasing lists of output redshifts (z + 1) of length n
RECURSIVE ZLists(_)
ZLists(n) ==
    IF n = 0 THEN {<<>>}
    ELSE {Append(zs, z) : zs \in ZLists(n - 1), z \in {2, MaxCycles + 1}}

Settings ==
    { [numpts |-> 2, Cf |-> RInt(1), steplimit |-> sl, Hconf |-> H,
       num_snapshot |-> Len(zsnap), z_snapshot |-> zsnap,
       num_pk |-> Len(zpk), z_pk |-> zpk,
       num_lightcone |-> Len(lc), lightcone |-> lc, gr |-> gr] :
         sl \in {<<1, 8>>, RInt(1)}, H \in HconfProfiles,
         zsnap \in UNION {ZLists(n) : n \in 0..MaxOut},
         zpk \in UNION {ZLists(n) : n \in 0..MaxOut},
         lc \in {<<>>, <<1>>, <<2, MaxCycles>>},
         gr \in BOOLEAN }

\* the stage that follows a stage in the body of the loop, moving the
\* particles before their velocities are updated
NextStage_MoveBeforeKick(stage) ==
    CASE stage = "sample" -> "potential"
      [] stage = "potential" -> "output"
      [] stage = "output" -> "completion"
      [] stage = "completion" -> "position"
      [] stage = "position" -> "velocity"
      [] stage = "velocity" -> "tail"
      [] stage = "tail" -> "stop"
      [] stage = "stop" -> "sample"

\* the stage that follows a stage in the body of the loop
NextStage(stage) ==
    CASE stage = "sample" -> "potential"
      [] stage = "potential" -> "output"
      [] stage = "output" -> "completion"
      [] stage = "completion" -> "velocity"
      [] stage = "velocity" -> "position"
      [] stage = "position" -> "tail"
      [] stage = "tail" -> "stop"
      [] stage = "stop" -> "sample"

\* line 305
InitialDtau(sim) ==
    RMin(RMul(sim.Cf, <<1, sim.numpts>>), RDiv(sim.steplimit, sim.Hconf[0]))

\* line 646
UpdatedDtau(sim, t) ==
    RMin(sim.Cf, RDiv(sim.steplimit, sim.Hconf[t]))

\* what the stages of a cycle have read and written: pos counts the
\* position updates; src is the pos the sources were sampled from, pot the
\* src the potentials were solved from, vel the <<pos, pot>> the last
\* velocity update read
FreshLog ==
    [stages |-> <<>>, pos |-> 0, src |-> -1, pot |-> -1, vel |-> <<-1, -1>>]

InitMain ==
    /\ EngIdle /\ PkIdle /\ KrIdle /\ StIdle
    /\ mSim \in Settings
    /\ mPc = "sample"
    /\ mCycle = 0
    /\ mT = 0
    /\ mDtau = <<RInt(0), InitialDtau(mSim)>>
    /\ mCount = <<0, 0>>
    /\ mLog = FreshLog

MnFrame == UNCHANGED <<engVars, pkVars, krVars, stVars>>

\* lines 372-401: the stress-energy tensor is sampled from the particles
MnSample ==
    /\ mPc = "sample"
    /\ mLog' = [mLog EXCEPT !.stages = <<"sample">>, !.src = mLog.pos]
    /\ mPc' = NextStage(mPc)
    /\ UNCHANGED <<mSim, mCycle, mT, mDtau, mCount>>
    /\ MnFrame

\* lines 403-411: the potentials are solved from the sources
MnPotential ==
    /\ mPc = "potential"
    /\ mLog' = [mLog EXCEPT !.stages = Append(@, "potential"), !.pot = mLog.src]
    /\ mPc' = NextStage(mPc)
    /\ UNCHANGED <<mSim, mCycle, mT, mDtau, mCount>>
    /\ MnFrame

\* the condition of lines 451-452 and of line 470
OutputDue(count, num, zs, t) ==
    count < num /\ RLess(OneOverA(t), RInt(zs[count + 1]))

\* lines 413-483: background record, lightcones, snapshot, spectra
MnOutput ==
    /\ mPc = "output"
    /\ mCount' =
          << IF OutputDue(mCount[1], mSim.num_snapshot, mSim.z_snapshot, mT)
             THEN mCount[1] + 1 ELSE mCount[1],
             IF OutputDue(mCount[2], mSim.num_pk, mSim.z_pk, mT)
             THEN mCount[2] + 1 ELSE mCount[2] >>
    /\ mLog' = [mLog EXCEPT !.stages = Append(@, "output")]
    /\ mPc' = NextStage(mPc)
    /\ UNCHANGED <<mSim, mCycle, mT, mDtau>>
    /\ MnFrame

\* lines 501-510 with || in place of &&
Complete_EitherCount(sim, count, t) ==
    /\ (count[2] >= sim.num_pk \/ count[1] >= sim.num_snapshot)
    /\ ~ \E i \in 1..sim.num_lightcone :
            RLess(RInt(sim.lightcone[i]), OneOverA(t))

\* lines 501-510: the loop over the lightcones leaves i = num_lightcone
\* exactly when no lightcone has z + 1 < 1/a
Complete(sim, count, t) ==
    /\ count[2] >= sim.num_pk /\ count[1] >= sim.num_snapshot
    /\ ~ \E i \in 1..sim.num_lightcone :
            RLess(RInt(sim.lightcone[i]), OneOverA(t))

MnCompletion ==
    /\ mPc = "completion"
    /\ mPc' = IF Complete(mSim, mCount, mT) THEN "complete" ELSE NextStage(mPc)
    /\ UNCHANGED <<mSim, mCycle, mT, mDtau, mCount, mLog>>
    /\ MnFrame

\* lines 546-573: the velocities are updated from the potentials (GR) or
\* from the forces computed from them (Newtonian)
MnVelocity ==
    /\ mPc = "velocity"
    /\ mLog' = [mLog EXCEPT !.stages = Append(@, "velocity"),
                             !.vel = <<mLog.pos, mLog.pot>>]
    /\ mPc' = NextStage(mPc)
    /\ UNCHANGED <<mSim, mCycle, mT, mDtau, mCount>>
    /\ MnFrame

\* lines 575-604: half a background step, the particles are moved, half a
\* background step
MnPosition ==
    /\ mPc = "position"
    /\ mT' = mT + 1
    /\ mLog' = [mLog EXCEPT !.stages = Append(@, "position"), !.pos = @ + 1]
    /\ mPc' = NextStage(mPc)
    /\ UNCHANGED <<mSim, mCycle, mDtau, mCount>>
    /\ MnFrame

\* lines 606-647: tau, the wallclock limit (hibernate and break), the
\* restart points, and the new time step
MnTail ==
    /\ mPc = "tail"
    /\ \/ /\ mPc' = "hibernated"
          /\ UNCHANGED <<mDtau, mCycle>>
       \/ /\ mDtau' = <<mDtau[2], UpdatedDtau(mSim, mT)>>
          /\ mCycle' = mCycle + 1
          /\ mPc' = NextStage(mPc)
    /\ UNCHANGED <<mSim, mT, mCount, mLog>>
    /\ MnFrame

\* line 648: stop() finds the file or not
MnStop ==
    /\ mPc = "stop"
    /\ \/ mPc' = "stopped"
       \/ mCycle < MaxCycles /\ mPc' = NextStage(mPc)
    /\ UNCHANGED <<mSim, mCycle, mT, mDtau, mCount, mLog>>
    /\ MnFrame

NextMain ==
    \/ MnSample
    \/ MnPotential
    \/ MnOutput
    \/ MnCompletion
    \/ MnVelocity
    \/ MnPosition
    \/ MnTail
    \/ MnStop

SpecMain == InitMain /\ [][NextMain]_vars

(***************************************************************************)
(* C15.  In every cycle the stages run in the order sample, potential      *)
(* solve, outputs, velocity update, position update; the velocity update   *)
(* reads potentials solved in the same cycle from sources sampled from     *)
(* the positions the particles still have, nothing having moved them in    *)
(* between.                                                                *)
(***************************************************************************)
StageOrder == <<"sample", "potential", "output", "velocity", "position">>

IsPrefix(a, b) == Len(a) <= Len(b) /\ \A n \in 1..Len(a) : a[n] = b[n]

Ran(stage) == \E n \in 1..Len(mLog.stages) : mLog.stages[n] = stage

C15_StageOrder ==
    mPc # "idle" =>
        /\ IsPrefix(mLog.stages, StageOrder)
        /\ (Ran("sample") /\ ~Ran("position")) => mLog.src = mLog.pos
        /\ Ran("potential") => mLog.pot = mLog.src
        /\ Ran("velocity") =>
              /\ mLog.vel[1] = mLog.src
              /\ mLog.vel[2] = mLog.vel[1]

C15_Witness ==
    /\ mPc = "tail" /\ mCycle = 2
    /\ mLog.stages = StageOrder
    /\ mLog.vel = <<2, 2>> /\ mLog.pos = 3

(***************************************************************************)
(* C17.  The loop is left through the completion break only when           *)
(* pkcount >= num_pk, snapcount >= num_snapshot and no lightcone has       *)
(* z + 1 < 1/a; always 0 <= snapcount <= num_snapshot and                  *)
(* 0 <= pkcount <= num_pk; and the counters change only in the output      *)
(* stage of a cycle, each by at most 1.                                    *)
(***************************************************************************)
CountsInRange ==
    /\ mCount[1] \in 0..mSim.num_snapshot
    /\ mCount[2] \in 0..mSim.num_pk

CourantLimit == RMul(mSim.Cf, <<1, mSim.numpts>>)

C18_DtauBound ==
    mPc # "idle" =>
        /\ RLeq(mDtau[2], CourantLimit)
        /\ mPc = "stop" =>
              mDtau[2] = RMin(CourantLimit, RDiv(mSim.steplimit, mSim.Hconf[mT]))

(***************************************************************************)
(* The end of the main loop on several processes (main.cpp 369-648).  Each *)
(* process runs the body, which holds the collectives parallel.sum (line   *)
(* 390) and parallel.max (line 597), then evaluates stop() on the shared   *)
(* file: fs::exists, then fs::remove.  A collective is passed once every   *)
(* process has arrived at it.  The completion break is taken by every      *)
(* process in the same cycle, here the cycle MaxCycles.  The file can be   *)
(* created at any time.                                                    *)
(***************************************************************************)
SProcs == 1..sProcs

InitStop ==
    /\ EngIdle /\ PkIdle /\ KrIdle /\ MnIdle
    /\ sProcs \in 2..MaxProcs
    /\ sPc = [p \in SProcs |-> "sum"]
    /\ sCycle = [p \in SProcs |-> 0]
    /\ sFile \in BOOLEAN

StFrame == UNCHANGED <<engVars, pkVars, krVars, mnVars>>

\* q has arrived at parallel.sum of the cycle c
AtSum(q, c) == sCycle[q] = c /\ sPc[q] \in {"sum", "max", "tail"}

\* q has arrived at parallel.max of the cycle c
AtMax(q, c) ==
    \/ sCycle[q] = c /\ sPc[q] \in {"max", "tail"}
    \/ sCycle[q] = c + 1 /\ sPc[q] \in {"exists", "remove", "out", "sum"}

\* lines 372-510: parallel.sum completes; then the outputs and the
\* completion test
StSum(p) ==
    /\ sPc[p] = "sum"
    /\ \A q \in SProcs : AtSum(q, sCycle[p])
    /\ sPc' = [sPc EXCEPT ![p] = IF sCycle[p] >= MaxCycles THEN "complete" ELSE "max"]
    /\ UNCHANGED <<sProcs, sCycle, sFile>>
    /\ StFrame

\* lines 546-604: the particle update; parallel.max completes
StMax(p) ==
    /\ sPc[p] = "max"
    /\ \A q \in SProcs : AtMax(q, sCycle[p])
    /\ sPc' = [sPc EXCEPT ![p] = "tail"]
    /\ UNCHANGED <<sProcs, sCycle, sFile>>
    /\ StFrame

\* lines 606-647: ..., cycle++
StTail(p) ==
    /\ sPc[p] = "tail"
    /\ sCycle' = [sCycle EXCEPT ![p] = @ + 1]
    /\ sPc' = [sPc EXCEPT ![p] = "exists"]
    /\ UNCHANGED <<sProcs, sFile>>
    /\ StFrame

\* lines 84-87: fs::exists(p)
StopSeesFile(file) == file

StExists(p) ==
    /\ sPc[p] = "exists"
    /\ sPc' = [sPc EXCEPT ![p] = IF StopSeesFile(sFile) THEN "remove" ELSE "sum"]
    /\ UNCHANGED <<sProcs, sCycle, sFile>>
    /\ StFrame

\* lines 89-92 and 648: fs::remove(p); stop() returns true, the loop is left
StRemove(p) ==
    /\ sPc[p] = "remove"
    /\ sFile' = FALSE
    /\ sPc' = [sPc EXCEPT ![p] = "out"]
    /\ UNCHANGED <<sProcs, sCycle>>
    /\ StFrame

\* the user creates the file 'stop' in the execution directory
StTouch ==
    /\ sProcs > 0
    /\ ~sFile
    /\ sFile' = TRUE
    /\ UNCHANGED <<sProcs, sPc, sCycle>>
    /\ StFrame

NextStop ==
    \/ \E p \in SProcs : StSum(p)
    \/ \E p \in SProcs : StMax(p)
    \/ \E p \in SProcs : StTail(p)
    \/ \E p \in SProcs : StExists(p)
    \/ \E p \in SProcs : StRemove(p)
    \/ StTouch

SpecStop == InitStop /\ [][NextStop]_vars

(***************************************************************************)
(* C16.  Stop-file agreement: the processes that evaluate stop() at the    *)
(* end of the same cycle take the same decision; no state has one process  *)
(* outside the loop while another has entered the next cycle and waits in  *)
(* a collective.                                                           *)
(***************************************************************************)
C16_StopAgreement ==
    \A p \in SProcs, q \in SProcs :
        ~ /\ sPc[p] = "out"
          /\ sCycle[q] = sCycle[p]
          /\ sPc[q] \in {"sum", "max"}
====
